---- MODULE Spec2Model ----
(***************************************************************************)
(* json2obj: JSONObjectMapper (core.py) and its path helpers (helpers.py). *)
(*                                                                         *)
(* Python dicts and lists are objects with identity, so the model keeps a  *)
(* heap of cells; a stored container is a reference into the heap, a       *)
(* JSONObjectMapper is a reference plus the policy of the mapper it was    *)
(* derived from, and a list handed to the caller is a cell of its own.     *)
(* Addresses are 1-based positions in the heap; Python indices are 0-based *)
(* and element i of a list lives at position i + 1 of its sequence.        *)
(***************************************************************************)
EXTENDS Integers, Sequences, FiniteSets, TLC

\* ------------------------------------------------------------------ bounds
MaxIndex == 2
MaxPathLen == 2
MaxOps == 2
MaxDeepLen == 3

\* ------------------------------------------------------------------ values
\* Keys a dict may hold and a path may name.  "keys" is also the name of a
\* method of the class (core.py:149).
Names == {"a", "b", "keys"}

\* type(self).__dict__, restricted to Names.
ClassAttrs == {"keys"}

Absent == [t |-> "absent", v |-> 0]
Null == [t |-> "null", v |-> 0]
IntVal(n) == [t |-> "int", v |-> n]
Ref(addr) == [t |-> "ref", v |-> addr]
ViewOf(addr) == [t |-> "view", v |-> addr]
ListOf(addr) == [t |-> "list", v |-> addr]
BoundMethod == [t |-> "method", v |-> 0]

EmptyD == [n \in Names |-> Absent]
DictCell(d) == [k |-> "dict", d |-> d, l |-> <<>>]
ListCell(l) == [k |-> "list", d |-> EmptyD, l |-> l]

\* Exception classes.  JSONAccessError comes from json2obj/exceptions.py.
NoError == "none"
JSONAccessError == "JSONAccessError"

IsException(err) == err # NoError

\* ------------------------------------------------------------------ tokens
\* A match of PATH_TOKEN: group "name" or group "index" is set.
Field(n) == [isName |-> TRUE, name |-> n, index |-> 0]
Index(i) == [isName |-> FALSE, name |-> "", index |-> i]

Segments == {Field(n) : n \in Names} \cup {Index(i) : i \in 0..MaxIndex}

RECURSIVE SeqsUpTo(_, _)
SeqsUpTo(S, n) ==
    IF n = 0 THEN {<<>>}
    ELSE LET shorter == SeqsUpTo(S, n - 1)
         IN  shorter \cup {Append(p, s) : p \in {q \in shorter : Len(q) = n - 1}, s \in S}

Paths == SeqsUpTo(Segments, MaxPathLen)

is_identifier(key) == key \in Names

is_last(current_index, tokens) == current_index = Len(tokens)

\* peek_is_index looking at the segment being resolved, not the one after it.
peek_is_index_current(tokens, current_index) == ~tokens[current_index].isName

peek_is_index(tokens, current_index) == ~tokens[current_index + 1].isName

\* ------------------------------------------------------------------ helpers.py
\* isinstance(obj, dict) / isinstance(obj, list) on a raw stored value.
IsDict(h, obj) == obj.t = "ref" /\ h[obj.v].k = "dict"
IsList(h, obj) == obj.t = "ref" /\ h[obj.v].k = "list"

expect_dict(h, obj) == IF IsDict(h, obj) THEN NoError ELSE "TypeError"
expect_list(h, obj) == IF IsList(h, obj) THEN NoError ELSE "TypeError"

Nulls(n) == [j \in 1..n |-> Null]

\* ensure_list_length padding one element too many.
ensure_list_length_over(lst, index) ==
    IF index >= Len(lst) THEN lst \o Nulls(index + 2 - Len(lst)) ELSE lst

ensure_list_length(lst, index) ==
    IF index >= Len(lst) THEN lst \o Nulls(index + 1 - Len(lst)) ELSE lst

SetKey(h, addr, name, value) ==
    [h EXCEPT ![addr].d = [@ EXCEPT ![name] = value]]

SetElem(h, addr, lst, index, value) ==
    [h EXCEPT ![addr].l = [lst EXCEPT ![index + 1] = value]]

\* container.get(name) is None: the key is absent or holds null.
GetIsNone(h, container, name) == h[container.v].d[name].t \in {"absent", "null"}

get_token_value(h, container, token) ==
    IF token.isName
    THEN IF expect_dict(h, container) # NoError
         THEN [err |-> "TypeError", value |-> Null]
         ELSE IF h[container.v].d[token.name] = Absent
              THEN [err |-> "KeyError", value |-> Null]
              ELSE [err |-> NoError, value |-> h[container.v].d[token.name]]
    ELSE IF expect_list(h, container) # NoError
         THEN [err |-> "TypeError", value |-> Null]
         ELSE IF token.index >= Len(h[container.v].l)
              THEN [err |-> "IndexError", value |-> Null]
              ELSE [err |-> NoError, value |-> h[container.v].l[token.index + 1]]

assign_at(h, container, token, value, create_parents) ==
    IF token.isName
    THEN IF expect_dict(h, container) # NoError
         THEN [heap |-> h, err |-> "TypeError"]
         ELSE [heap |-> SetKey(h, container.v, token.name, value), err |-> NoError]
    ELSE IF expect_list(h, container) # NoError
         THEN [heap |-> h, err |-> "TypeError"]
         ELSE IF token.index >= Len(h[container.v].l) /\ ~create_parents
              THEN [heap |-> h, err |-> "IndexError"]
              ELSE [heap |-> SetElem(h, container.v,
                                     ensure_list_length(h[container.v].l, token.index),
                                     token.index, value),
                    err |-> NoError]

\* {} if next_is_index else []
NewContainerSwapped(next_is_index) ==
    IF next_is_index THEN DictCell(EmptyD) ELSE ListCell(<<>>)

\* [] if next_is_index else {}
NewContainer(next_is_index) ==
    IF next_is_index THEN ListCell(<<>>) ELSE DictCell(EmptyD)

ensure_next(h, container, token, next_is_index, create_parents) ==
    IF token.isName
    THEN IF expect_dict(h, container) # NoError
         THEN [heap |-> h, err |-> "TypeError", next |-> Null]
         ELSE IF GetIsNone(h, container, token.name)
              THEN IF ~create_parents
                   THEN [heap |-> h, err |-> "KeyError", next |-> Null]
                   ELSE LET fresh == Len(h) + 1
                            h1 == Append(h, NewContainer(next_is_index))
                        IN  [heap |-> SetKey(h1, container.v, token.name, Ref(fresh)),
                             err |-> NoError, next |-> Ref(fresh)]
              ELSE [heap |-> h, err |-> NoError, next |-> h[container.v].d[token.name]]
    ELSE IF expect_list(h, container) # NoError
         THEN [heap |-> h, err |-> "TypeError", next |-> Null]
         ELSE IF token.index >= Len(h[container.v].l)
              THEN IF ~create_parents
                   THEN [heap |-> h, err |-> "IndexError", next |-> Null]
                   ELSE LET fresh == Len(h) + 1
                            h1 == Append(h, NewContainer(next_is_index))
                        IN  [heap |-> SetElem(h1, container.v,
                                              ensure_list_length(h[container.v].l, token.index),
                                              token.index, Ref(fresh)),
                             err |-> NoError, next |-> Ref(fresh)]
              ELSE [heap |-> h, err |-> NoError,
                    next |-> h[container.v].l[token.index + 1]]

\* The loop of traverse_parent over tokens[:-1]; None is returned as Null.
RECURSIVE traverse_parent_from(_, _, _, _, _)
traverse_parent_from(h, current, tokens, i, strict) ==
    IF i >= Len(tokens) THEN [err |-> NoError, parent |-> current]
    ELSE LET r == get_token_value(h, current, tokens[i])
         IN  IF r.err # NoError
             THEN IF strict THEN [err |-> "KeyError", parent |-> Null]
                  ELSE [err |-> NoError, parent |-> Null]
             ELSE traverse_parent_from(h, r.value, tokens, i + 1, strict)

traverse_parent(h, root, tokens, strict) ==
    traverse_parent_from(h, root, tokens, 1, strict)

\* parent.pop(index_int) taking the last element instead of the indexed one.
RemoveLast(lst, index) ==
    [j \in 1..(Len(lst) - 1) |-> lst[j]]

\* parent.pop(index_int)
RemoveAt(lst, index) ==
    [j \in 1..(Len(lst) - 1) |-> IF j <= index THEN lst[j] ELSE lst[j + 1]]

delete_on_parent(h, parent, last_token, strict) ==
    IF last_token.isName
    THEN IF expect_dict(h, parent) # NoError
         THEN [heap |-> h, err |-> "TypeError"]
         ELSE IF h[parent.v].d[last_token.name] # Absent
              THEN [heap |-> SetKey(h, parent.v, last_token.name, Absent), err |-> NoError]
              ELSE [heap |-> h, err |-> IF strict THEN "KeyError" ELSE NoError]
    ELSE IF expect_list(h, parent) # NoError
         THEN [heap |-> h, err |-> "TypeError"]
         ELSE IF last_token.index < Len(h[parent.v].l)
              THEN [heap |-> [h EXCEPT ![parent.v].l = RemoveAt(@, last_token.index)],
                    err |-> NoError]
              ELSE [heap |-> h, err |-> IF strict THEN "IndexError" ELSE NoError]

\* ------------------------------------------------------------------ core.py
\* The policy of a mapper: (readonly, default_factory, autocreate_missing).
\* default_factory is None ("none") or dict ("dict").
Policies == [readonly : BOOLEAN, factory : {"none", "dict"}, autocreate : BOOLEAN]

\* wrap_value: a dict becomes a mapper on the same dict (_no_copy=True); a
\* list becomes a new list whose container items are wrapped in turn.
RECURSIVE wrap_value(_, _)
RECURSIVE wrap_items(_, _, _)

\* wrap_value as it would be if a dict were copied on read (no _no_copy).
wrap_value_copying(h, value) ==
    IF IsDict(h, value)
    THEN [heap |-> Append(h, h[value.v]), val |-> ViewOf(Len(h) + 1)]
    ELSE IF IsList(h, value)
         THEN LET r == wrap_items(h, h[value.v].l, 1)
              IN  [heap |-> Append(r.heap, ListCell(r.items)),
                   val |-> ListOf(Len(r.heap) + 1)]
         ELSE [heap |-> h, val |-> value]

\* wrap_value as it would be if a stored list were returned as it is.
wrap_value_aliasing(h, value) ==
    IF IsDict(h, value) THEN [heap |-> h, val |-> ViewOf(value.v)]
    ELSE IF IsList(h, value) THEN [heap |-> h, val |-> ListOf(value.v)]
         ELSE [heap |-> h, val |-> value]

wrap_value(h, value) ==
    IF IsDict(h, value) THEN [heap |-> h, val |-> ViewOf(value.v)]
    ELSE IF IsList(h, value)
         THEN LET r == wrap_items(h, h[value.v].l, 1)
              IN  [heap |-> Append(r.heap, ListCell(r.items)),
                   val |-> ListOf(Len(r.heap) + 1)]
         ELSE [heap |-> h, val |-> value]

wrap_items(h, items, i) ==
    IF i > Len(items) THEN [heap |-> h, items |-> <<>>]
    ELSE LET w == IF IsDict(h, items[i]) \/ IsList(h, items[i])
                  THEN wrap_value(h, items[i])
                  ELSE [heap |-> h, val |-> items[i]]
             rest == wrap_items(w.heap, items, i + 1)
         IN  [heap |-> rest.heap, items |-> <<w.val>> \o rest.items]

_wrap(h, value) == wrap_value(h, value)

Raised(h, e) == [heap |-> h, err |-> e, ret |-> Null]
Returned(w) == [heap |-> w.heap, err |-> NoError, ret |-> w.val]

_on_missing_attr(h, pol, data, attribute_name) ==
    IF pol.factory = "none" THEN [heap |-> h, err |-> JSONAccessError, value |-> Null]
    ELSE LET produced == Len(h) + 1
             h1 == Append(h, DictCell(EmptyD))
         IN  [heap |-> IF pol.autocreate /\ ~pol.readonly
                       THEN SetKey(h1, data, attribute_name, Ref(produced))
                       ELSE h1,
              err |-> NoError, value |-> Ref(produced)]

__getattr__(h, pol, self, attribute_name) ==
    IF h[self].k = "list" THEN Raised(h, JSONAccessError)
    ELSE IF attribute_name \in ClassAttrs
         THEN [heap |-> h, err |-> NoError, ret |-> BoundMethod]
         ELSE IF ~is_identifier(attribute_name) THEN Raised(h, JSONAccessError)
              ELSE IF h[self].d[attribute_name] # Absent
                   THEN Returned(_wrap(h, h[self].d[attribute_name]))
                   ELSE LET m == _on_missing_attr(h, pol, self, attribute_name)
                        IN  IF m.err # NoError THEN Raised(h, m.err)
                            ELSE Returned(_wrap(m.heap, m.value))

\* getattr(mapper, name): Python consults the class before __getattr__, so a
\* name of the class body never reaches __getattr__.
getattr_mapper(h, pol, self, attribute_name) ==
    IF attribute_name \in ClassAttrs
    THEN [heap |-> h, err |-> NoError, ret |-> BoundMethod]
    ELSE __getattr__(h, pol, self, attribute_name)

\* self.__json[key] succeeds.
HasItem(h, self, key) ==
    IF h[self].k = "dict" THEN key.isName /\ h[self].d[key.name] # Absent
    ELSE ~key.isName /\ key.index < Len(h[self].l)

ItemOf(h, self, key) ==
    IF h[self].k = "dict" THEN h[self].d[key.name] ELSE h[self].l[key.index + 1]

__getitem__(h, self, key) ==
    IF ~HasItem(h, self, key) THEN Raised(h, "KeyError")
    ELSE Returned(_wrap(h, ItemOf(h, self, key)))

__setattr__(h, pol, self, attribute_name, value) ==
    IF pol.readonly THEN [heap |-> h, err |-> "AttributeError"]
    ELSE IF h[self].k = "list" THEN [heap |-> h, err |-> "AttributeError"]
         ELSE IF ~is_identifier(attribute_name) THEN [heap |-> h, err |-> "AttributeError"]
              ELSE [heap |-> SetKey(h, self, attribute_name, value), err |-> NoError]

\* self.__json[key] = value: a dict takes any key, a list an index in range.
__setitem__(h, pol, self, key, value) ==
    IF pol.readonly THEN [heap |-> h, err |-> "AttributeError"]
    ELSE IF h[self].k = "dict"
         THEN [heap |-> SetKey(h, self, key.name, value), err |-> NoError]
         ELSE IF key.isName THEN [heap |-> h, err |-> "TypeError"]
              ELSE IF key.index >= Len(h[self].l) THEN [heap |-> h, err |-> "IndexError"]
                   ELSE [heap |-> SetElem(h, self, h[self].l, key.index, value),
                         err |-> NoError]

\* One hop of get_path: getattr(current, name) or current[int(index)], where
\* current is a mapper, a list returned by wrap_value, or a scalar.
get_path_hop(h, pol, current, token) ==
    IF token.isName
    THEN IF current.t = "view" THEN getattr_mapper(h, pol, current.v, token.name)
         ELSE Raised(h, "AttributeError")
    ELSE IF current.t = "view" THEN __getitem__(h, current.v, token)
         ELSE IF current.t = "list"
              THEN IF token.index < Len(h[current.v].l)
                   THEN [heap |-> h, err |-> NoError, ret |-> h[current.v].l[token.index + 1]]
                   ELSE Raised(h, "IndexError")
              ELSE Raised(h, "TypeError")

RECURSIVE get_path_from(_, _, _, _, _, _)
get_path_from(h, pol, current, tokens, i, default) ==
    IF i > Len(tokens) THEN [heap |-> h, err |-> NoError, ret |-> current]
    ELSE LET r == get_path_hop(h, pol, current, tokens[i])
         IN  IF IsException(r.err) THEN [heap |-> r.heap, err |-> NoError, ret |-> default]
             ELSE get_path_from(r.heap, pol, r.ret, tokens, i + 1, default)

get_path(h, pol, self, tokens, default) ==
    get_path_from(h, pol, ViewOf(self), tokens, 1, default)

RECURSIVE set_path_from(_, _, _, _, _, _)
set_path_from(h, current, tokens, index, value, create_parents) ==
    IF is_last(index, tokens)
    THEN assign_at(h, current, tokens[index], value, create_parents)
    ELSE LET r == ensure_next(h, current, tokens[index],
                              peek_is_index(tokens, index), create_parents)
         IN  IF r.err # NoError THEN [heap |-> r.heap, err |-> r.err]
             ELSE set_path_from(r.heap, r.next, tokens, index + 1, value, create_parents)

\* set_path without its read-only test.
set_path_unguarded(h, pol, self, tokens, value, create_parents) ==
    IF tokens = <<>> THEN [heap |-> h, err |-> "ValueError"]
    ELSE set_path_from(h, Ref(self), tokens, 1, value, create_parents)

set_path(h, pol, self, tokens, value, create_parents) ==
    IF pol.readonly THEN [heap |-> h, err |-> "AttributeError"]
    ELSE IF tokens = <<>> THEN [heap |-> h, err |-> "ValueError"]
         ELSE set_path_from(h, Ref(self), tokens, 1, value, create_parents)

del_path(h, pol, self, tokens, raise_on_missing) ==
    IF pol.readonly THEN [heap |-> h, err |-> "AttributeError"]
    ELSE IF tokens = <<>> THEN [heap |-> h, err |-> "ValueError"]
         ELSE LET p == traverse_parent(h, Ref(self), tokens, raise_on_missing)
              IN  IF p.err # NoError THEN [heap |-> h, err |-> p.err]
                  ELSE IF p.parent = Null THEN [heap |-> h, err |-> NoError]
                       ELSE delete_on_parent(h, p.parent, tokens[Len(tokens)],
                                             raise_on_missing)

\* other is a mapping from some of Names to scalars (Absent: not a key of it).
merge(h, pol, self, other) ==
    IF pol.readonly THEN [heap |-> h, err |-> "AttributeError"]
    ELSE IF h[self].k # "dict" THEN [heap |-> h, err |-> "TypeError"]
         ELSE [heap |-> [h EXCEPT ![self].d =
                            [n \in Names |-> IF other[n] # Absent THEN other[n] ELSE @[n]]],
               err |-> NoError]

\* to_dict(): the plain-value form of what a value holds.
RECURSIVE Plain(_, _)
Plain(h, value) ==
    IF value.t \in {"ref", "view", "list"}
    THEN IF h[value.v].k = "dict"
         THEN [t |-> "dict", f |-> [n \in Names |-> Plain(h, h[value.v].d[n])]]
         ELSE [t |-> "list", s |-> [j \in 1..Len(h[value.v].l) |-> Plain(h, h[value.v].l[j])]]
    ELSE value

to_dict(h, self) == Plain(h, Ref(self))

\* ------------------------------------------------------------------ state
VARIABLES
    heap,   \* the cells; cell 1 is the container the root mapper wraps
    pol,    \* the policy the root mapper was constructed with
    b,      \* the container value the caller kept from its latest read
    bsrc,   \* what was stored at the place that read addressed
    last,   \* the call that has just returned, with its arguments and outcome
    nops,   \* calls made so far
    initial \* to_dict() of the root mapper right after construction

vars == <<heap, pol, b, bsrc, last, nops, initial>>

\* Trees a mapper is constructed on (JSONObjectMapper(data) deep-copies data).
\* {}
Tree1 == <<DictCell(EmptyD)>>
\* {"a": {"b": 1, "keys": 2}, "b": [1, {"a": 1}, [2]]}
Tree2 ==
    << DictCell([EmptyD EXCEPT !["a"] = Ref(2), !["b"] = Ref(3)]),
       DictCell([EmptyD EXCEPT !["b"] = IntVal(1), !["keys"] = IntVal(2)]),
       ListCell(<<IntVal(1), Ref(4), Ref(5)>>),
       DictCell([EmptyD EXCEPT !["a"] = IntVal(1)]),
       ListCell(<<IntVal(2)>>) >>
\* {"a": null, "b": 1, "keys": []}
Tree3 ==
    << DictCell([EmptyD EXCEPT !["a"] = Null, !["b"] = IntVal(1), !["keys"] = Ref(2)]),
       ListCell(<<>>) >>
\* [{"a": 1}, [null, 1], 2]
Tree4 ==
    << ListCell(<<Ref(2), Ref(3), IntVal(2)>>),
       DictCell([EmptyD EXCEPT !["a"] = IntVal(1)]),
       ListCell(<<Null, IntVal(1)>>) >>
\* {"a": [{"b": [1, 2, 1]}], "keys": 1}
Tree5 ==
    << DictCell([EmptyD EXCEPT !["a"] = Ref(2), !["keys"] = IntVal(1)]),
       ListCell(<<Ref(3)>>),
       DictCell([EmptyD EXCEPT !["b"] = Ref(4)]),
       ListCell(<<IntVal(1), IntVal(2), IntVal(1)>>) >>

Trees == {Tree1, Tree2, Tree3, Tree4, Tree5}

RootAddr == 1
RootView == ViewOf(RootAddr)

\* Values a caller passes: null, a number no tree holds, a new {} or a new [].
ValueChoices == {"null", "int", "dict", "list"}
NewInt == IntVal(3)

\* The heap once the caller has built the value it is about to pass.
WithValue(h, vc) ==
    IF vc = "dict" THEN Append(h, DictCell(EmptyD))
    ELSE IF vc = "list" THEN Append(h, ListCell(<<>>))
         ELSE h

ValueOf(h, vc) ==
    IF vc \in {"dict", "list"} THEN Ref(Len(h) + 1)
    ELSE IF vc = "int" THEN NewInt ELSE Null

Defaults == {Null, IntVal(7)}

\* Mappings passed to merge().
Others ==
    { [EmptyD EXCEPT !["b"] = NewInt],
      [EmptyD EXCEPT !["a"] = Null, !["keys"] = NewInt] }

\* The mappers the caller holds: the root and, if its latest read gave one, b.
Handles == {RootView} \cup (IF b.t = "view" THEN {b} ELSE {})

\* What the raw tree holds at tokens below start (Absent: nothing).
RECURSIVE ResolveRaw(_, _, _, _)
ResolveRaw(h, current, tokens, i) ==
    IF i > Len(tokens) THEN current
    ELSE LET r == get_token_value(h, current, tokens[i])
         IN  IF r.err # NoError THEN Absent
             ELSE ResolveRaw(h, r.value, tokens, i + 1)

Idle ==
    [op |-> "none", h |-> Null, tokens |-> <<>>, value |-> Null, flag |-> FALSE,
     default |-> Null, other |-> EmptyD, err |-> NoError, ret |-> Null,
     pre |-> Null, preRoot |-> Null, preHeap |-> <<>>]

\* The record of a call on handle hd, made in heap h0 (the caller's value built).
Call(op, hd, h0) ==
    [Idle EXCEPT !.op = op, !.h = hd, !.pre = Plain(h0, hd),
                 !.preRoot = to_dict(h0, RootAddr), !.preHeap = h0]

CanCall == last.op = "none" /\ nops < MaxOps

IsContainerValue(value) == value.t \in {"view", "list"}

\* A read returned r on handle hd for tokens: the caller keeps a container.
AfterRead(r, hd, tokens) ==
    /\ heap' = r.heap
    /\ nops' = nops + 1
    /\ UNCHANGED <<pol, initial>>
    /\ IF r.err = NoError /\ IsContainerValue(r.ret)
       THEN /\ b' = r.ret
            /\ bsrc' = ResolveRaw(heap, Ref(hd.v), tokens, 1)
       ELSE UNCHANGED <<b, bsrc>>

AfterWrite(r) ==
    /\ heap' = r.heap
    /\ nops' = nops + 1
    /\ UNCHANGED <<pol, b, bsrc, initial>>

Init ==
    /\ heap \in Trees
    /\ pol \in Policies
    /\ b = Null
    /\ bsrc = Absent
    /\ last = Idle
    /\ nops = 0
    /\ initial = to_dict(heap, RootAddr)

\* value = mapper.name
GetAttr ==
    /\ CanCall
    /\ \E hd \in Handles, name \in Names :
         LET r == getattr_mapper(heap, pol, hd.v, name)
         IN  /\ last' = [Call("getattr", hd, heap) EXCEPT
                            !.tokens = <<Field(name)>>, !.err = r.err, !.ret = r.ret]
             /\ AfterRead(r, hd, <<Field(name)>>)

\* value = mapper[key]
GetItem ==
    /\ CanCall
    /\ \E hd \in Handles, key \in Segments :
         LET r == __getitem__(heap, hd.v, key)
         IN  /\ last' = [Call("getitem", hd, heap) EXCEPT
                            !.tokens = <<key>>, !.err = r.err, !.ret = r.ret]
             /\ AfterRead(r, hd, <<key>>)

\* value = mapper.get_path(path, default)
GetPath ==
    /\ CanCall
    /\ \E hd \in Handles, tokens \in Paths, default \in Defaults :
         LET r == get_path(heap, pol, hd.v, tokens, default)
         IN  /\ last' = [Call("get_path", hd, heap) EXCEPT
                            !.tokens = tokens, !.default = default,
                            !.err = r.err, !.ret = r.ret]
             /\ AfterRead(r, hd, tokens)

\* mapper.name = value
SetAttr ==
    /\ CanCall
    /\ \E hd \in Handles, name \in Names, vc \in ValueChoices :
         LET h0 == WithValue(heap, vc)
             value == ValueOf(heap, vc)
             r == __setattr__(h0, pol, hd.v, name, value)
         IN  /\ last' = [Call("setattr", hd, h0) EXCEPT
                            !.tokens = <<Field(name)>>, !.value = value, !.err = r.err]
             /\ AfterWrite(r)

\* mapper[key] = value; a dict is given string keys only.
SetItem ==
    /\ CanCall
    /\ \E hd \in Handles, key \in Segments, vc \in ValueChoices :
         /\ heap[hd.v].k = "dict" => key.isName
         /\ LET h0 == WithValue(heap, vc)
                value == ValueOf(heap, vc)
                r == __setitem__(h0, pol, hd.v, key, value)
            IN  /\ last' = [Call("setitem", hd, h0) EXCEPT
                               !.tokens = <<key>>, !.value = value, !.err = r.err]
                /\ AfterWrite(r)

\* mapper.set_path(path, value, create_parents=flag)
SetPath ==
    /\ CanCall
    /\ \E hd \in Handles, tokens \in Paths, vc \in ValueChoices, cp \in BOOLEAN :
         LET h0 == WithValue(heap, vc)
             value == ValueOf(heap, vc)
             r == set_path(h0, pol, hd.v, tokens, value, cp)
         IN  /\ last' = [Call("set_path", hd, h0) EXCEPT
                            !.tokens = tokens, !.value = value, !.flag = cp,
                            !.err = r.err]
             /\ AfterWrite(r)

\* mapper.del_path(path, raise_on_missing=flag)
DelPath ==
    /\ CanCall
    /\ \E hd \in Handles, tokens \in Paths, strict \in BOOLEAN :
         LET r == del_path(heap, pol, hd.v, tokens, strict)
         IN  /\ last' = [Call("del_path", hd, heap) EXCEPT
                            !.tokens = tokens, !.flag = strict, !.err = r.err]
             /\ AfterWrite(r)

\* mapper.merge(other)
Merge ==
    /\ CanCall
    /\ \E hd \in Handles, other \in Others :
         LET r == merge(heap, pol, hd.v, other)
         IN  /\ last' = [Call("merge", hd, heap) EXCEPT !.other = other, !.err = r.err]
             /\ AfterWrite(r)

\* lst[index] = value on a list a read returned (wrap_value's list).
ListSetItem ==
    /\ CanCall
    /\ b.t = "list"
    /\ \E index \in 0..MaxIndex, vc \in {"null", "int"} :
         /\ index < Len(heap[b.v].l)
         /\ LET value == ValueOf(heap, vc)
                r == [heap |-> SetElem(heap, b.v, heap[b.v].l, index, value),
                      err |-> NoError]
            IN  /\ last' = [Call("list_setitem", b, heap) EXCEPT
                               !.tokens = <<Index(index)>>, !.value = value]
                /\ AfterWrite(r)

\* lst.append(value) on a list a read returned.
ListAppend ==
    /\ CanCall
    /\ b.t = "list"
    /\ LET r == [heap |-> [heap EXCEPT ![b.v].l = Append(@, NewInt)], err |-> NoError]
       IN  /\ last' = [Call("list_append", b, heap) EXCEPT !.value = NewInt]
           /\ AfterWrite(r)

\* The call has returned and the caller goes on to its next statement.
Return ==
    /\ last.op # "none"
    /\ last' = Idle
    /\ UNCHANGED <<heap, pol, b, bsrc, nops, initial>>

Next ==
    \/ GetAttr
    \/ GetItem
    \/ GetPath
    \/ SetAttr
    \/ SetItem
    \/ SetPath
    \/ DelPath
    \/ Merge
    \/ ListSetItem
    \/ ListAppend
    \/ Return

Spec == Init /\ [][Next]_vars

\* One set_path call on the root mapper, along paths of up to MaxDeepLen
\* segments, so that a call can build a chain of containers.
DeepPaths == SeqsUpTo(Segments, MaxDeepLen)

SetPathDeep ==
    /\ last.op = "none"
    /\ nops = 0
    /\ \E tokens \in DeepPaths, vc \in ValueChoices, cp \in BOOLEAN :
         LET h0 == WithValue(heap, vc)
             value == ValueOf(heap, vc)
             r == set_path(h0, pol, RootAddr, tokens, value, cp)
         IN  /\ last' = [Call("set_path", RootView, h0) EXCEPT
                            !.tokens = tokens, !.value = value, !.flag = cp,
                            !.err = r.err]
             /\ AfterWrite(r)

NextDeep ==
    \/ SetPathDeep
    \/ Return

SpecDeep == Init /\ [][NextDeep]_vars

\* ------------------------------------------------------------------ plain values
\* The properties are stated on plain values (to_dict() forms), where a path is
\* read as the JSON it addresses: a Field needs an Object holding the key, an
\* Index needs an Array long enough.
EmptyObject == [t |-> "dict", f |-> EmptyD]

IsScalar(pv) == pv.t \in {"null", "int"}

\* One segment applied to a plain value: why is "ok", "type", "key" or "index".
PlainStep(pv, token) ==
    IF token.isName
    THEN IF pv.t # "dict" THEN [why |-> "type", val |-> Absent]
         ELSE IF pv.f[token.name] = Absent THEN [why |-> "key", val |-> Absent]
              ELSE [why |-> "ok", val |-> pv.f[token.name]]
    ELSE IF pv.t # "list" THEN [why |-> "type", val |-> Absent]
         ELSE IF token.index >= Len(pv.s) THEN [why |-> "index", val |-> Absent]
              ELSE [why |-> "ok", val |-> pv.s[token.index + 1]]

RECURSIVE PlainResolveFrom(_, _, _)
PlainResolveFrom(pv, tokens, i) ==
    IF i > Len(tokens) THEN [why |-> "ok", val |-> pv]
    ELSE LET r == PlainStep(pv, tokens[i])
         IN  IF r.why # "ok" THEN r ELSE PlainResolveFrom(r.val, tokens, i + 1)

PlainResolve(pv, tokens) == PlainResolveFrom(pv, tokens, 1)

Front(tokens) == SubSeq(tokens, 1, Len(tokens) - 1)
LastOf(tokens) == tokens[Len(tokens)]

\* pv with the slot a token names replaced by nv (the slot exists).
PlainPut(pv, token, nv) ==
    IF token.isName THEN [pv EXCEPT !.f[token.name] = nv]
    ELSE [pv EXCEPT !.s[token.index + 1] = nv]

\* pv with the slot a token names removed (the slot exists).
PlainRemove(pv, token) ==
    IF token.isName THEN [pv EXCEPT !.f[token.name] = Absent]
    ELSE [pv EXCEPT !.s = [j \in 1..(Len(pv.s) - 1) |->
                              IF j <= token.index THEN pv.s[j] ELSE pv.s[j + 1]]]

\* pv with the target of tokens (which resolves) removed, all else kept.
RECURSIVE PlainDeleteFrom(_, _, _)
PlainDeleteFrom(pv, tokens, i) ==
    IF i = Len(tokens) THEN PlainRemove(pv, tokens[i])
    ELSE PlainPut(pv, tokens[i],
                  PlainDeleteFrom(PlainStep(pv, tokens[i]).val, tokens, i + 1))

Reads == {"getattr", "getitem", "get_path"}
Mutations == {"setattr", "setitem", "set_path", "del_path", "merge"}

\* ------------------------------------------------------------------ properties
\* What get_path(tokens, default) would return to the caller of the call that
\* has just returned, asked on the same mapper.
ReadBack(default) == get_path(heap, pol, last.h.v, last.tokens, default)

\* The call that has just returned was set_path on a writable mapper, along a
\* path that addressed an existing scalar before the call.
SetOnExistingScalar ==
    /\ last.op = "set_path"
    /\ ~pol.readonly
    /\ last.tokens # <<>>
    /\ PlainResolve(last.pre, last.tokens).why = "ok"
    /\ IsScalar(PlainResolve(last.pre, last.tokens).val)

\* C1: set/get round trip.  After set_path(p, v) on a non-read-only mapper,
\* where p addressed an existing scalar, get_path(p) on that mapper returns v
\* (whatever default is passed).
C1_SetGetRoundTrip ==
    SetOnExistingScalar =>
        /\ last.err = NoError
        /\ \A default \in Defaults :
             LET r == ReadBack(default)
             IN  Plain(r.heap, r.ret) = Plain(heap, last.value)

\* C2: read-only invariant.  On a mapper constructed read-only, and on every
\* mapper derived from it by reads, each mutation (attribute set, index set,
\* set_path, del_path, merge) raises the read-only error (AttributeError) and
\* changes nothing; after any sequence of calls to_dict() is what it was
\* after construction.
C2_ReadOnlyInvariant ==
    pol.readonly =>
        /\ to_dict(heap, RootAddr) = initial
        /\ last.op \in Mutations =>
             /\ last.err = "AttributeError"
             /\ Plain(heap, last.h) = last.pre
             /\ to_dict(heap, RootAddr) = last.preRoot

\* C2 witness: a mutation through a derived mapper of a read-only root was
\* rejected, as the second call of the run.
C2_Witness ==
    /\ pol.readonly
    /\ last.op \in {"set_path", "merge", "setitem"}
    /\ last.h # RootView
    /\ last.err = "AttributeError"
    /\ initial # EmptyObject

\* The call that has just returned set a field through b, a mapper the caller
\* got from a read that addressed a stored Object (bsrc), on a writable tree.
SetThroughDerived ==
    /\ ~pol.readonly
    /\ last.op \in {"setattr", "setitem", "set_path"}
    /\ last.err = NoError
    /\ last.h = b
    /\ b.t = "view"
    /\ IsDict(heap, bsrc)

\* Mapper cell a holds under the attribute-readable key x the Object b was read from.
HoldsSource(a, x) ==
    /\ heap[a].k = "dict"
    /\ x \notin ClassAttrs
    /\ heap[a].d[x] = bsrc

\* C3: Object aliasing.  If b was obtained by reading a.x, where field x of
\* mapper a holds an Object, then a field set through b (attribute, index or
\* set_path) shows in a later read of a.x and in a's to_dict(): the read made
\* no copy of the Object.
C3_ObjectAliasing ==
    SetThroughDerived =>
        /\ b.v = bsrc.v
        /\ \A a \in 1..Len(heap), x \in Names :
             HoldsSource(a, x) =>
                 LET ax == getattr_mapper(heap, pol, a, x)
                     seen == PlainResolve(Plain(ax.heap, ax.ret), last.tokens)
                     inA == PlainResolve(to_dict(heap, a), <<Field(x)>> \o last.tokens)
                 IN  /\ ax.err = NoError
                     /\ seen.why = "ok" /\ seen.val = Plain(heap, last.value)
                     /\ inA.why = "ok" /\ inA.val = Plain(heap, last.value)

\* C3 witness: b was read from the root's field "a" and a field was then set
\* through b.
C3_Witness ==
    /\ SetThroughDerived
    /\ HoldsSource(RootAddr, "a")
    /\ last.value = NewInt
    /\ PlainResolve(last.preRoot, <<Field("a")>> \o last.tokens).why # "ok"

\* The caller's list b came from a read that addressed a stored Array (bsrc).
ListFromStoredArray ==
    /\ ~pol.readonly
    /\ b.t = "list"
    /\ IsList(heap, bsrc)

\* Element j of the returned list is what wrap_value makes of the stored one.
WrappedElement(j) ==
    LET raw == heap[bsrc.v].l[j]
        got == heap[b.v].l[j]
    IN  IF IsDict(heap, raw) THEN got = ViewOf(raw.v)
        ELSE IF IsList(heap, raw)
             THEN got.t = "list" /\ got.v # raw.v /\ Plain(heap, got) = Plain(heap, raw)
             ELSE got = raw

\* The list operation that has just returned shows in the list at lst.
EffectIn(lst) ==
    IF last.op = "list_setitem"
    THEN heap[lst.v].l[last.tokens[1].index + 1] = last.value
    ELSE Len(heap[lst.v].l) = Len(last.pre.s) + 1

RECURSIVE PlainSetFrom(_, _, _, _)
PlainSetFrom(pv, tokens, i, nv) ==
    IF i = Len(tokens) THEN PlainPut(pv, tokens[i], nv)
    ELSE PlainPut(pv, tokens[i],
                  PlainSetFrom(PlainStep(pv, tokens[i]).val, tokens, i + 1, nv))

\* The call that has just returned was del_path on a writable mapper with a
\* non-empty path.
Deleted ==
    /\ last.op = "del_path"
    /\ ~pol.readonly
    /\ last.tokens # <<>>

\* The call changed nothing the caller can see.
NothingChanged ==
    /\ Plain(heap, last.h) = last.pre
    /\ to_dict(heap, RootAddr) = last.preRoot

\* C5: non-strict delete is a silent no-op.  del_path with
\* raise_on_missing=False, on a path whose target does not resolve (a segment
\* is missing, out of range or applied to the wrong kind of container),
\* raises nothing and changes nothing.
C5_NonStrictDeleteNoOp ==
    (Deleted /\ ~last.flag /\ PlainResolve(last.pre, last.tokens).why # "ok") =>
        /\ last.err = NoError
        /\ NothingChanged

\* C6: delete of an existing target removes exactly that target.  When the
\* path resolves, del_path succeeds and afterwards the parent Object lacks
\* that key, or the parent Array lacks that element with the later elements
\* moved down by one; every other key, element and container is as before.
C6_DeleteExisting ==
    (Deleted /\ PlainResolve(last.pre, last.tokens).why = "ok") =>
        /\ last.err = NoError
        /\ Plain(heap, last.h) = PlainDeleteFrom(last.pre, last.tokens, 1)
        /\ last.h = RootView => to_dict(heap, RootAddr) = PlainDeleteFrom(last.preRoot, last.tokens, 1)

\* C6 witness: an element that is not the last of its Array was deleted
\* below the root.
C6_Witness ==
    /\ Deleted
    /\ Len(last.tokens) = 2
    /\ ~LastOf(last.tokens).isName
    /\ PlainResolve(last.pre, last.tokens).why = "ok"
    /\ LastOf(last.tokens).index + 1 < Len(PlainResolve(last.pre, Front(last.tokens)).val.s)
    /\ last.err = NoError

\* The call that has just returned was set_path with create_parents=True on a
\* writable mapper, ending in an Index at or past the end of an existing Array.
GrewArray ==
    /\ last.op = "set_path"
    /\ ~pol.readonly
    /\ last.flag
    /\ last.tokens # <<>>
    /\ ~LastOf(last.tokens).isName
    /\ PlainResolve(last.pre, Front(last.tokens)).why = "ok"
    /\ PlainResolve(last.pre, Front(last.tokens)).val.t = "list"
    /\ Len(PlainResolve(last.pre, Front(last.tokens)).val.s) <= LastOf(last.tokens).index

\* C7: list growth.  set_path with create_parents=True ending in Index i on an
\* Array of length n <= i leaves that Array with length exactly i + 1:
\* elements 0..n-1 as before, n..i-1 null, element i the written value.
C7_ListGrowth ==
    GrewArray =>
        LET i == LastOf(last.tokens).index
            old == PlainResolve(last.pre, Front(last.tokens)).val.s
            new == PlainResolve(Plain(heap, last.h), Front(last.tokens))
        IN  /\ last.err = NoError
            /\ new.why = "ok"
            /\ new.val.t = "list"
            /\ Len(new.val.s) = i + 1
            /\ \A j \in 1..Len(old) : new.val.s[j] = old[j]
            /\ \A j \in (Len(old) + 1)..i : new.val.s[j] = Null
            /\ new.val.s[i + 1] = Plain(heap, last.value)

\* C7 witness: a non-empty Array grew by more than one element.
C7_Witness ==
    /\ GrewArray
    /\ last.err = NoError
    /\ Len(PlainResolve(last.pre, Front(last.tokens)).val.s) = 1
    /\ LastOf(last.tokens).index = 2
    /\ last.value = NewInt

\* The error set_path(create_parents=False) owes for tokens on plain value pv.
RECURSIVE OwedSetError(_, _, _)
OwedSetError(pv, tokens, i) ==
    LET step == PlainStep(pv, tokens[i])
    IN  IF step.why = "type" THEN "TypeError"
        ELSE IF step.why = "index" THEN "IndexError"
             ELSE IF i = Len(tokens) THEN NoError
                  ELSE IF step.why = "key" THEN "KeyError"
                       ELSE OwedSetError(step.val, tokens, i + 1)

\* C8: with create_parents=False set_path creates no container and pads no
\* Array.  A missing intermediate key raises KeyError, an Index at or past the
\* length IndexError, a segment on the wrong kind of container TypeError, each
\* leaving to_dict() unchanged; otherwise only the addressed slot is written.
C8_NoCreateParents ==
    (last.op = "set_path" /\ ~pol.readonly /\ ~last.flag /\ last.tokens # <<>>) =>
        /\ last.err = OwedSetError(last.pre, last.tokens, 1)
        /\ last.err # NoError => NothingChanged
        /\ last.err = NoError =>
             Plain(heap, last.h) = PlainSetFrom(last.pre, last.tokens, 1, Plain(heap, last.value))

\* The call that has just returned read by attribute a field the mapper's
\* Object lacked, on a mapper with a default factory.
ReadMissingWithFactory ==
    /\ last.op = "getattr"
    /\ pol.factory # "none"
    /\ last.pre.t = "dict"
    /\ last.pre.f[last.tokens[1].name] = Absent

\* C9: autocreate policy on read.  Reading a missing field by attribute, with a
\* default factory, returns a produced default; the default is stored under
\* the key if and only if autocreate_missing is set and the mapper is not
\* read-only, and otherwise to_dict() is unchanged.
C9_AutocreateOnRead ==
    ReadMissingWithFactory =>
        LET name == last.tokens[1].name
        IN  /\ last.err = NoError
            /\ last.ret.t = "view"
            /\ Plain(heap, last.ret) = EmptyObject
            /\ IF pol.autocreate /\ ~pol.readonly
               THEN /\ heap[last.h.v].d[name] = Ref(last.ret.v)
                    /\ Plain(heap, last.h) = [last.pre EXCEPT !.f[name] = EmptyObject]
               ELSE NothingChanged

\* What get_path owes for tokens on plain value pv: the value at the path,
\* with a produced default standing in for a missing key under a factory.
RECURSIVE OwedRead(_, _, _)
OwedRead(pv, tokens, i) ==
    IF i > Len(tokens) THEN [why |-> "ok", val |-> pv]
    ELSE LET step == PlainStep(pv, tokens[i])
         IN  IF step.why = "ok" THEN OwedRead(step.val, tokens, i + 1)
             ELSE IF step.why = "key" /\ pol.factory # "none"
                  THEN OwedRead(EmptyObject, tokens, i + 1)
                  ELSE step

\* C10: get_path never propagates an error.  If a hop fails (Field on an
\* Array, Index on an Object, missing key without a default factory, index
\* out of range) it returns the caller's default, and otherwise the wrapped
\* value found at the path.
C10_GetPathTotal ==
    last.op = "get_path" =>
        LET owed == OwedRead(last.pre, last.tokens, 1)
        IN  /\ last.err = NoError
            /\ IF owed.why # "ok" THEN last.ret = last.default
               ELSE Plain(heap, last.ret) = owed.val

\* The call that has just returned was set_path on a writable mapper with a
\* non-empty path.
WasSetPath ==
    /\ last.op = "set_path"
    /\ ~pol.readonly
    /\ last.tokens # <<>>

Prefix(tokens, j) == SubSeq(tokens, 1, j)

\* What the tree held, and holds, below the mapper of the call at the first
\* j segments of its path.
RawBefore(j) == ResolveRaw(last.preHeap, Ref(last.h.v), Prefix(last.tokens, j), 1)
RawAfter(j) == ResolveRaw(heap, Ref(last.h.v), Prefix(last.tokens, j), 1)

\* The container at the first j segments was created by the call.
CreatedAt(j) == RawAfter(j).t = "ref" /\ RawAfter(j).v > Len(last.preHeap)

\* A container created for segment j holds nothing but the slot segment j + 1
\* names: it was made empty, of the kind that segment needs.
MadeFor(cell, next) ==
    IF next.isName
    THEN /\ cell.k = "dict"
         /\ \A n \in Names \ {next.name} : cell.d[n] = Absent
    ELSE /\ cell.k = "list"
         /\ Len(cell.l) = next.index + 1
         /\ \A i \in 1..next.index : cell.l[i] = Null

\* The first segment finds nothing stored in the mapper's own container.
AllMissing == PlainStep(last.pre, last.tokens[1]).why \in {"key", "index"}

\* C11: container-kind inference.  Every intermediate container set_path
\* creates (create_parents=True) is an empty Array if the segment after the
\* one being resolved is an Index and an empty Object otherwise; when all the
\* intermediates are missing the call builds the whole chain and succeeds,
\* the value ending up at the path.
C11_KindInference ==
    (WasSetPath /\ last.flag) =>
        /\ \A j \in 1..(Len(last.tokens) - 1) :
             CreatedAt(j) => MadeFor(heap[RawAfter(j).v], last.tokens[j + 1])
        /\ AllMissing =>
             /\ last.err = NoError
             /\ \A j \in 1..(Len(last.tokens) - 1) : CreatedAt(j)
             /\ RawAfter(Len(last.tokens)) = last.value

\* C11 witness: a call built an Array and, inside it, an Object.
C11_Witness ==
    /\ WasSetPath
    /\ last.flag
    /\ AllMissing
    /\ Len(last.tokens) = 3
    /\ ~last.tokens[2].isName
    /\ last.tokens[3].isName
    /\ last.err = NoError
    /\ CreatedAt(1) /\ CreatedAt(2)

\* What the plain-value form held, before the call, at the first j segments.
StoredAt(j) == PlainResolve(last.pre, Prefix(last.tokens, j))

\* A plain value is a container of the kind a segment applies to.
Fits(pv, token) == IF token.isName THEN pv.t = "dict" ELSE pv.t = "list"

\* C12: set_path creates an intermediate container only where nothing is
\* stored.  While walking the segments before the last, a value stored under
\* an existing key or in-range index (a scalar, null included) is never
\* replaced, and when it is not a container of the kind the next segment
\* needs the call fails with a type error; a container is created only where
\* the key was absent or the index at or beyond the length.
C12_CreatesOnlyWhereMissing ==
    WasSetPath =>
        \A j \in 1..(Len(last.tokens) - 1) :
            /\ StoredAt(j).why = "ok" =>
                 /\ RawAfter(j) = RawBefore(j)
                 /\ ~Fits(StoredAt(j).val, last.tokens[j + 1]) =>
                      last.err = "TypeError"
            /\ CreatedAt(j) => StoredAt(j).why \in {"key", "index"}

\* C13: set_path is all-or-nothing.  Whenever set_path on a writable mapper
\* raises, whatever the path, the value and create_parents, the plain-value
\* form of the tree is what it was before the call: no created container and
\* no null padding is left behind.
C13_AllOrNothing ==
    (last.op = "set_path" /\ ~pol.readonly /\ last.err # NoError) => NothingChanged

\* C13 witness: a call allowed to create parents raised on a stored value of
\* the wrong kind for its last segment.
C13_Witness ==
    /\ WasSetPath
    /\ last.flag
    /\ Len(last.tokens) = 2
    /\ StoredAt(1).why = "ok"
    /\ StoredAt(1).val.t # "null"
    /\ ~Fits(StoredAt(1).val, last.tokens[2])
    /\ last.err = "TypeError"
    /\ NothingChanged

====
